---- MODULE Spec2Model ----
(***************************************************************************)
(* Model of the TPV/markup dashboard: src/utils.py (load_data,             *)
(* compute_summary) and src/process_data.py (main).                        *)
(*                                                                         *)
(* Text (file names, column headers) is a sequence of code points, so that *)
(* sorted(), str.startswith, os.path.splitext, str.lower, str.strip and    *)
(* str.title are computed as Python computes them.  A cell of a sheet is a *)
(* record [k, v]: k = "num" (a number v), "numstr" (a string spelling the  *)
(* number v), "text" (any other string, v names it), "date" (a string      *)
(* spelling the date v = yyyymmdd), "dt" (a timestamp v = yyyymmdd) or     *)
(* "na" (missing: NaN / NaT / empty cell).                                 *)
(***************************************************************************)
EXTENDS Integers, Sequences, FiniteSets, TLC

VARIABLES
    dirOk,       \* os.listdir(data_dir) can list the directory
    listing,     \* the entries of data_dir, in the order os.listdir yields them
    pc,          \* position of main
    files,       \* sorted(os.listdir(data_dir))
    idx,         \* position of load_data's for loop in files
    all_frames,  \* load_data's all_frames
    notices,     \* the lines load_data has printed
    err,         \* the exception that ended main, "none" while there is none
    df,          \* main's df: <<the dataset load_data returned>>, <<>> before
    summary,     \* main's summary (compute_summary's return value)
    ts_summary,  \* main's ts_summary
    reportDir,   \* report_dir exists
    reports      \* the report files written so far, in order

vars == <<dirOk, listing, pc, files, idx, all_frames, notices, err, df,
          summary, ts_summary, reportDir, reports>>

\* The most entries a directory of the model holds.
MaxFiles == 2

----------------------------------------------------------------------------
(* Text *)

IsUpper(c) == c \in 65..90
IsLower(c) == c \in 97..122
IsCased(c) == IsUpper(c) \/ IsLower(c)
IsSpace(c) == c \in {9, 10, 11, 12, 13, 32}
ToLower(c) == IF IsUpper(c) THEN c + 32 ELSE c
ToUpper(c) == IF IsLower(c) THEN c - 32 ELSE c

\* str.lower()
StrLower(s) == [i \in 1..Len(s) |-> ToLower(s[i])]

RECURSIVE LStrip(_)
LStrip(s) == IF s # <<>> /\ IsSpace(Head(s)) THEN LStrip(Tail(s)) ELSE s

RECURSIVE RStrip(_)
RStrip(s) ==
    IF s # <<>> /\ IsSpace(s[Len(s)]) THEN RStrip(SubSeq(s, 1, Len(s) - 1)) ELSE s

\* str.strip()
Strip(s) == RStrip(LStrip(s))

\* str.title(): a cased character following a cased one is lowered, any other
\* cased character is raised, an uncased character is kept and ends the word.
RECURSIVE TitleFrom(_, _, _)
TitleFrom(s, i, prevCased) ==
    IF i > Len(s) THEN <<>>
    ELSE IF IsCased(s[i])
         THEN <<IF prevCased THEN ToLower(s[i]) ELSE ToUpper(s[i])>>
                  \o TitleFrom(s, i + 1, TRUE)
         ELSE <<s[i]>> \o TitleFrom(s, i + 1, FALSE)

Title(s) == TitleFrom(s, 1, FALSE)

\* str.startswith("~")
StartsWithTilde(s) == Len(s) >= 1 /\ s[1] = 126

\* a < b for Python str: code point by code point, a proper prefix first
RECURSIVE StrLess(_, _)
StrLess(a, b) ==
    IF b = <<>> THEN FALSE
    ELSE IF a = <<>> THEN TRUE
    ELSE IF Head(a) # Head(b) THEN Head(a) < Head(b)
    ELSE StrLess(Tail(a), Tail(b))

\* os.path.splitext(name)[1]: from the last dot on, unless only dots precede it
LastDot(s) ==
    LET ds == {i \in 1..Len(s) : s[i] = 46}
    IN  IF ds = {} THEN 0 ELSE CHOOSE i \in ds : \A j \in ds : j <= i

SplitExt(s) ==
    LET d == LastDot(s)
    IN  IF d > 0 /\ \E j \in 1..(d - 1) : s[j] # 46
        THEN SubSeq(s, d, Len(s))
        ELSE <<>>

ExtCsv  == <<46, 99, 115, 118>>         \* ".csv"
ExtXlsx == <<46, 120, 108, 115, 120>>   \* ".xlsx"
ExtXls  == <<46, 120, 108, 115>>        \* ".xls"

ColCliente == <<67, 108, 105, 101, 110, 116, 101>>   \* "Cliente"
ColTpv     == <<84, 112, 118>>                        \* "Tpv"
ColMarkup  == <<77, 97, 114, 107, 117, 112>>          \* "Markup"
ColData    == <<68, 97, 116, 97>>                     \* "Data"

\* Faulty variant of Sorted: the entries are taken as os.listdir yields them.
Unsorted(l) == l

\* sorted(names): insertion of each element of the list into a sorted list
RECURSIVE InsertSorted(_, _)
InsertSorted(e, s) ==
    IF s = <<>> THEN <<e>>
    ELSE IF StrLess(e.name, Head(s).name) THEN <<e>> \o s
    ELSE <<Head(s)>> \o InsertSorted(e, Tail(s))

RECURSIVE Sorted(_)
Sorted(l) == IF l = <<>> THEN <<>> ELSE InsertSorted(l[Len(l)], Sorted(SubSeq(l, 1, Len(l) - 1)))

----------------------------------------------------------------------------
(* Cells and frames *)

Num(v)     == [k |-> "num", v |-> v]
NumStr(v)  == [k |-> "numstr", v |-> v]
Text(v)    == [k |-> "text", v |-> v]
DateStr(v) == [k |-> "date", v |-> v]
Stamp(v)   == [k |-> "dt", v |-> v]
NA         == [k |-> "na", v |-> 0]

\* A column label: a string, or any other object (a number, a date) as
\* pd.read_excel yields for a header cell that is no text.
Str(s) == [isStr |-> TRUE, s |-> s]
NonStr == [isStr |-> FALSE, s |-> <<>>]

\* The positions of label c among the columns
Positions(cols, c) == {i \in 1..Len(cols) : cols[i] = c}

HasDuplicates(cols) == \E i, j \in 1..Len(cols) : i # j /\ cols[i] = cols[j]

\* pd.to_numeric(errors="coerce"), cell by cell
ToNumeric(c) ==
    CASE c.k = "num"    -> c
      [] c.k = "numstr" -> Num(c.v)
      [] OTHER          -> NA

\* pd.to_datetime(errors="coerce"), cell by cell; a number counts nanoseconds
\* from the epoch, which for the numbers of the model is 1970-01-01
ToDatetime(c) ==
    CASE c.k = "date" -> Stamp(c.v)
      [] c.k = "dt"   -> c
      [] c.k = "num"  -> Stamp(19700101)
      [] c.k = "text" -> NA
      [] c.k = "na"   -> NA

----------------------------------------------------------------------------
(* load_data, one file *)

Notice(kind, name) == [kind |-> kind, file |-> name]

\* What one pass of the for loop does with entry e: the frames it appends, the
\* lines it prints and the exception it lets escape ("none": the loop goes on).
Outcome(frames, printed, exc) == [frames |-> frames, notices |-> printed, err |-> exc]

\* pd.read_csv / pd.read_excel by extension; the parse itself is the library's,
\* e.parses says whether it raises
Supported(name) == StrLower(SplitExt(name)) \in {ExtCsv, ExtXlsx, ExtXls}

\* df.rename(columns={c: c.strip().title() for c in df.columns})
RenameColumns(frame) ==
    [frame EXCEPT !.columns =
        [i \in 1..Len(frame.columns) |-> Str(Title(Strip(frame.columns[i].s)))]]

TitledLabels(frame) == {Title(frame.columns[i].s) : i \in 1..Len(frame.columns)}

RequiredCols == {ColCliente, ColTpv, ColMarkup}

\* required_cols.issubset({c.title() for c in df.columns})
HasRequired(frame) == RequiredCols \subseteq TitledLabels(frame)

\* Faulty variant of CoerceNumeric: a cell that is no number becomes 0 (a fillna(0)).
CoerceNumericFillZero(frame, c) ==
    LET p == CHOOSE i \in Positions(frame.columns, Str(c)) : TRUE
    IN  [frame EXCEPT !.rows =
            [r \in 1..Len(frame.rows) |->
                [frame.rows[r] EXCEPT
                    ![p] = IF ToNumeric(@) = NA THEN Num(0) ELSE ToNumeric(@)]]]

\* df["Tpv"] = pd.to_numeric(df["Tpv"], errors="coerce"), the label being there once
CoerceNumeric(frame, c) ==
    LET p == CHOOSE i \in Positions(frame.columns, Str(c)) : TRUE
    IN  [frame EXCEPT !.rows =
            [r \in 1..Len(frame.rows) |-> [frame.rows[r] EXCEPT ![p] = ToNumeric(@)]]]

\* df["Data"] = pd.to_datetime(df["Data"], errors="coerce")
CoerceDate(frame) ==
    LET p == CHOOSE i \in Positions(frame.columns, Str(ColData)) : TRUE
    IN  [frame EXCEPT !.rows =
            [r \in 1..Len(frame.rows) |-> [frame.rows[r] EXCEPT ![p] = ToDatetime(@)]]]

\* df[c] is a Series when the label is there once, a DataFrame when it repeats
IsSeries(frame, c) == Cardinality(Positions(frame.columns, Str(c))) = 1

\* lines 53-70: the frame was read
Normalize(e, raw) ==
    IF \E i \in 1..Len(raw.columns) : ~raw.columns[i].isStr
    THEN Outcome(<<>>, <<>>, "AttributeError")          \* c.strip() of a non-string
    ELSE LET d0 == RenameColumns(raw) IN
         IF ~HasRequired(d0)
         THEN Outcome(<<>>, <<Notice("missing_columns", e.name)>>, "none")
         ELSE IF ColData \in TitledLabels(d0) /\ ~IsSeries(d0, ColData)
         THEN Outcome(<<>>, <<>>, "ValueError")         \* to_datetime of a DataFrame
         ELSE LET d1 == IF ColData \in TitledLabels(d0) THEN CoerceDate(d0) ELSE d0 IN
              IF ~IsSeries(d1, ColTpv) \/ ~IsSeries(d1, ColMarkup)
              THEN Outcome(<<>>, <<>>, "TypeError")     \* to_numeric of a DataFrame
              ELSE Outcome(<<CoerceNumeric(CoerceNumeric(d1, ColTpv), ColMarkup)>>,
                           <<>>, "none")

\* lines 35-70: one pass of the loop
ProcessFile(e) ==
    IF StartsWithTilde(e.name) THEN Outcome(<<>>, <<>>, "none")
    ELSE IF ~e.isfile THEN Outcome(<<>>, <<>>, "none")
    ELSE IF ~Supported(e.name)
    THEN Outcome(<<>>, <<Notice("unsupported", e.name)>>, "none")
    ELSE IF ~e.parses
    THEN Outcome(<<>>, <<Notice("read_failed", e.name)>>, "none")
    ELSE Normalize(e, e.frame)

----------------------------------------------------------------------------
(* pd.concat(all_frames, ignore_index=True) *)

RECURSIVE FlattenRows(_)
FlattenRows(fs) == IF fs = <<>> THEN <<>> ELSE Head(fs).rows \o FlattenRows(Tail(fs))

\* the labels of all frames, each once, in order of first appearance
RECURSIVE UnionColumns(_, _)
UnionColumns(fs, acc) ==
    IF fs = <<>> THEN acc
    ELSE UnionColumns(Tail(fs),
             acc \o SelectSeq(Head(fs).columns, LAMBDA c : Positions(acc, c) = {}))

\* a frame's rows under the combined labels: a label it lacks is missing
Reindex(frame, cols) ==
    [r \in 1..Len(frame.rows) |->
        [i \in 1..Len(cols) |->
            IF Positions(frame.columns, cols[i]) = {} THEN NA
            ELSE frame.rows[r][CHOOSE p \in Positions(frame.columns, cols[i]) : TRUE]]]

RECURSIVE ReindexAll(_, _)
ReindexAll(fs, cols) ==
    IF fs = <<>> THEN <<>> ELSE Reindex(Head(fs), cols) \o ReindexAll(Tail(fs), cols)

SameColumns(fs) == \A i \in 1..Len(fs) : fs[i].columns = fs[1].columns

\* Frames with equal labels are stacked as they are; otherwise each is
\* reindexed to the union, which pandas refuses for repeated labels.
ConcatRaises(fs) == ~SameColumns(fs) /\ \E i \in 1..Len(fs) : HasDuplicates(fs[i].columns)

ConcatColumns(fs) == IF SameColumns(fs) THEN fs[1].columns ELSE UnionColumns(fs, <<>>)

ConcatRows(fs) ==
    IF SameColumns(fs) THEN FlattenRows(fs) ELSE ReindexAll(fs, ConcatColumns(fs))

\* Faulty variant of Concat: rows with a missing cell are dropped (a dropna()).
ConcatDropNa(fs) ==
    [columns |-> ConcatColumns(fs),
     rows |-> SelectSeq(ConcatRows(fs), LAMBDA r : \A i \in 1..Len(r) : r[i] # NA)]

Concat(fs) == [columns |-> ConcatColumns(fs), rows |-> ConcatRows(fs)]

\* lines 72-76: what load_data ends with once the loop is over
Return(frames, printed) ==
    IF frames = <<>> THEN [df |-> <<>>, notices |-> printed, err |-> "NoValidData"]
    ELSE IF ConcatRaises(frames)
    THEN [df |-> <<>>, notices |-> printed, err |-> "InvalidIndexError"]
    ELSE [df |-> <<Concat(frames)>>, notices |-> printed, err |-> "none"]

\* the for loop from position i on
RECURSIVE LoopFrom(_, _, _, _)
LoopFrom(fs, i, frames, printed) ==
    IF i > Len(fs) THEN Return(frames, printed)
    ELSE LET o == ProcessFile(fs[i])
         IN  IF o.err # "none"
             THEN [df |-> <<>>, notices |-> printed \o o.notices, err |-> o.err]
             ELSE LoopFrom(fs, i + 1, frames \o o.frames, printed \o o.notices)

\* load_data(data_dir) as a function of what os.listdir yields: the dataset it
\* returns (<<>>: none), the lines it prints, the exception it raises
load_data(ok, l) ==
    IF ~ok THEN [df |-> <<>>, notices |-> <<>>, err |-> "ListDirError"]
    ELSE LoopFrom(Sorted(l), 1, <<>>, <<>>)

----------------------------------------------------------------------------
(* groupby(...).agg(...) *)

\* the distinct keys in ascending order (groupby sorts its keys); a missing key
\* forms no group (groupby's dropna)
RECURSIVE SortKeys(_)
SortKeys(S) ==
    IF S = {} THEN <<>>
    ELSE LET m == CHOOSE x \in S : \A y \in S : x.v <= y.v
         IN  <<m>> \o SortKeys(S \ {m})

GroupKeys(rows, p) == SortKeys({rows[r][p] : r \in 1..Len(rows)} \ {NA})

GroupRows(rows, p, key) == SelectSeq(rows, LAMBDA r : r[p] = key)

\* Faulty variant of SumCol: the values are counted, not added ("count" for "sum").
SumColCount(rows, p) == Len(SelectSeq(rows, LAMBDA r : r[p].k = "num"))

\* "sum": missing values are skipped, and nothing sums to 0
RECURSIVE SumCol(_, _)
SumCol(rows, p) ==
    IF rows = <<>> THEN 0
    ELSE (IF Head(rows)[p].k = "num" THEN Head(rows)[p].v ELSE 0) + SumCol(Tail(rows), p)

\* Faulty variant of CountCol: only rows without any missing cell are counted.
CountComplete(rows, p) ==
    Len(SelectSeq(rows, LAMBDA r : \A i \in 1..Len(r) : r[i].k # "na"))

\* "count": the values that are not missing
CountCol(rows, p) == Len(SelectSeq(rows, LAMBDA r : r[p].k # "na"))

\* "mean": the sum over the count of the values that are not missing, NaN for none
MeanCol(rows, p) ==
    IF CountCol(rows, p) = 0 THEN NA
    ELSE [k |-> "mean", sum |-> SumCol(rows, p), n |-> CountCol(rows, p)]

Pos(frame, c) == CHOOSE p \in Positions(frame.columns, Str(c)) : TRUE

\* df.groupby("Cliente") refuses a label that names several columns
SummaryRaises(d) == Cardinality(Positions(d.columns, Str(ColCliente))) # 1

\* compute_summary(df)
compute_summary(d) ==
    LET pC == Pos(d, ColCliente)
        pT == Pos(d, ColTpv)
        pM == Pos(d, ColMarkup)
        keys == GroupKeys(d.rows, pC)
    IN  [g \in 1..Len(keys) |->
            LET rows == GroupRows(d.rows, pC, keys[g])
            IN  [Cliente      |-> keys[g],
                 Tpv_Total    |-> SumCol(rows, pT),
                 Markup_Medio |-> MeanCol(rows, pM),
                 Registros    |-> CountCol(rows, pC)]]

\* "Data" in df.columns
HasDataColumn(d) == Positions(d.columns, Str(ColData)) # {}

\* df.dropna(subset=["Data"])
DropNaData(d) == SelectSeq(d.rows, LAMBDA r : r[Pos(d, ColData)].k # "na")

\* Faulty variant of MonthStart: the date is kept as it is, so rows are bucketed by day.
MonthStartSameDay(c) == c

\* .dt.to_period("M").dt.to_timestamp(): the first day of the month
MonthStart(c) == Stamp((c.v \div 100) * 100 + 1)

\* lines 75-80: ts_summary of the rows that have a date
time_series(d) ==
    LET pD == Pos(d, ColData)
        pT == Pos(d, ColTpv)
        pM == Pos(d, ColMarkup)
        dated == DropNaData(d)
        \* df_date["AnoMes"], appended as the last column
        rows == [r \in 1..Len(dated) |-> Append(dated[r], MonthStart(dated[r][pD]))]
        pA == Len(d.columns) + 1
        keys == GroupKeys(rows, pA)
    IN  [g \in 1..Len(keys) |->
            [AnoMes       |-> keys[g],
             Tpv_Total    |-> SumCol(GroupRows(rows, pA, keys[g]), pT),
             Markup_Medio |-> MeanCol(GroupRows(rows, pA, keys[g]), pM)]]

----------------------------------------------------------------------------
(* The directories of the model *)

Acme   == Text(1)
Globex == Text(2)
Initech == Text(3)
Junk   == Text(9)

Entry(name, isfile, parses, columns, rows) ==
    [name |-> name, isfile |-> isfile, parses |-> parses,
     frame |-> [columns |-> columns, rows |-> rows]]

PlainCols == <<Str(ColCliente), Str(ColTpv), Str(ColMarkup)>>

AcmeRows == << <<Acme, Num(100), Num(10)>>,
               <<Acme, Num(200), Num(20)>>,
               <<Globex, Num(50), Num(5)>> >>

Catalog ==
    { \* "a.csv": the spec's end-to-end sheet
      Entry(<<97, 46, 99, 115, 118>>, TRUE, TRUE, PlainCols, AcmeRows),
      \* "B.CSV": headers "cliente ", "TPV", " markup", "data"; cells that fail coercion
      Entry(<<66, 46, 67, 83, 86>>, TRUE, TRUE,
            <<Str(<<99, 108, 105, 101, 110, 116, 101, 32>>), Str(<<84, 80, 86>>),
              Str(<<32, 109, 97, 114, 107, 117, 112>>), Str(<<100, 97, 116, 97>>)>>,
            << <<Acme, Junk, Num(10), DateStr(20240105)>>,
               <<NA, Num(7), Junk, DateStr(20240128)>>,
               <<Globex, NumStr(3), NA, Junk>> >>),
      \* "c.xlsx": dated rows, a customer whose Tpv is all missing
      Entry(<<99, 46, 120, 108, 115, 120>>, TRUE, TRUE,
            <<Str(ColCliente), Str(ColTpv), Str(ColMarkup), Str(ColData)>>,
            << <<Globex, Num(5), Num(1), DateStr(20240210)>>,
               <<Initech, Junk, NA, DateStr(20231231)>>,
               <<Initech, NA, Num(4), NA>> >>),
      \* "d.xls": headers "CLIENTE", "mArKuP", "tpv" and no rows
      Entry(<<100, 46, 120, 108, 115>>, TRUE, TRUE,
            <<Str(<<67, 76, 73, 69, 78, 84, 69>>), Str(<<109, 65, 114, 75, 117, 80>>),
              Str(<<116, 112, 118>>)>>,
            <<>>),
      \* "e.txt"
      Entry(<<101, 46, 116, 120, 116>>, TRUE, TRUE, PlainCols, AcmeRows),
      \* "~f.csv": an editor's lock file
      Entry(<<126, 102, 46, 99, 115, 118>>, TRUE, TRUE, PlainCols, AcmeRows),
      \* "g.csv": a subdirectory
      Entry(<<103, 46, 99, 115, 118>>, FALSE, FALSE, <<>>, <<>>),
      \* "h.csv": unreadable
      Entry(<<104, 46, 99, 115, 118>>, TRUE, FALSE, <<>>, <<>>),
      \* "i.csv": headers "Cliente", "Tpv", "Obs"
      Entry(<<105, 46, 99, 115, 118>>, TRUE, TRUE,
            <<Str(ColCliente), Str(ColTpv), Str(<<79, 98, 115>>)>>,
            << <<Acme, Num(1), Junk>> >>),
      \* "j.xlsx": a header cell holding a number
      Entry(<<106, 46, 120, 108, 115, 120>>, TRUE, TRUE,
            <<NonStr, Str(ColCliente), Str(ColTpv), Str(ColMarkup)>>,
            << <<Num(1), Acme, Num(1), Num(1)>> >>),
      \* "k.csv": headers "Cliente", "tpv", "TPV ", "Markup"
      Entry(<<107, 46, 99, 115, 118>>, TRUE, TRUE,
            <<Str(ColCliente), Str(<<116, 112, 118>>), Str(<<84, 80, 86, 32>>),
              Str(ColMarkup)>>,
            << <<Acme, Num(1), Num(2), Num(3)>> >>),
      \* "l.csv": headers "cliente", "Cliente ", "Tpv", "Markup"
      Entry(<<108, 46, 99, 115, 118>>, TRUE, TRUE,
            <<Str(<<99, 108, 105, 101, 110, 116, 101>>),
              Str(<<67, 108, 105, 101, 110, 116, 101, 32>>), Str(ColTpv), Str(ColMarkup)>>,
            << <<Acme, Globex, Num(1), Num(2)>> >>),
      \* "o.xlsx": a header cell holding a number, and no Markup column
      Entry(<<111, 46, 120, 108, 115, 120>>, TRUE, TRUE,
            <<NonStr, Str(ColCliente), Str(ColTpv)>>,
            << <<Num(1), Acme, Num(1)>> >>),
      \* ".csv": a hidden file without extension
      Entry(<<46, 99, 115, 118>>, TRUE, TRUE, PlainCols, AcmeRows),
      \* "n.csv": headers "Cliente", "Tpv", "Markup", "data", "DATA"
      Entry(<<110, 46, 99, 115, 118>>, TRUE, TRUE,
            <<Str(ColCliente), Str(ColTpv), Str(ColMarkup), Str(<<100, 97, 116, 97>>),
              Str(<<68, 65, 84, 65>>)>>,
            << <<Acme, Num(1), Num(2), DateStr(20240105), DateStr(20240106)>> >>) }

\* the listings os.listdir can yield: the entries of a directory, in any order
Listings ==
    {l \in UNION {[1..n -> Catalog] : n \in 0..MaxFiles} :
        \A i, j \in 1..Len(l) : i # j => l[i].name # l[j].name}

----------------------------------------------------------------------------
(* main *)

TpvChart      == "tpv_por_cliente.html"
MarkupChart   == "markup_por_cliente.html"
TpvTsChart    == "tpv_ao_longo_do_tempo.html"
MarkupTsChart == "markup_ao_longo_do_tempo.html"

Init ==
    /\ dirOk \in BOOLEAN
    /\ listing \in (IF dirOk THEN Listings ELSE {<<>>})
    /\ pc = "mkdir"
    /\ files = <<>>
    /\ idx = 0
    /\ all_frames = <<>>
    /\ notices = <<>>
    /\ err = "none"
    /\ df = <<>>
    /\ summary = <<>>
    /\ ts_summary = <<>>
    /\ reportDir = FALSE
    /\ reports = <<>>

Fail(exc) == pc' = "failed" /\ err' = exc

\* Path(report_dir).mkdir(parents=True, exist_ok=True)
MakeReportDir ==
    /\ pc = "mkdir"
    /\ reportDir' = TRUE
    /\ pc' = "listdir"
    /\ UNCHANGED <<dirOk, listing, files, idx, all_frames, notices, err, df,
                   summary, ts_summary, reports>>

\* load_data: sorted(os.listdir(data_dir))
ListDir ==
    /\ pc = "listdir"
    /\ IF dirOk
       THEN /\ files' = Sorted(listing)
            /\ idx' = 1
            /\ pc' = "loop"
            /\ err' = err
       ELSE /\ Fail("ListDirError")
            /\ UNCHANGED <<files, idx>>
    /\ UNCHANGED <<dirOk, listing, all_frames, notices, df, summary, ts_summary,
                   reportDir, reports>>

\* load_data: one pass of the for loop
LoadFile ==
    /\ pc = "loop"
    /\ idx <= Len(files)
    /\ LET o == ProcessFile(files[idx])
       IN  /\ all_frames' = all_frames \o o.frames
           /\ notices' = notices \o o.notices
           /\ IF o.err = "none"
              THEN idx' = idx + 1 /\ UNCHANGED <<pc, err>>
              ELSE idx' = idx /\ Fail(o.err)
    /\ UNCHANGED <<dirOk, listing, files, df, summary, ts_summary, reportDir, reports>>

\* load_data: after the loop, raise or concatenate and return
Combine ==
    /\ pc = "loop"
    /\ idx > Len(files)
    /\ LET r == Return(all_frames, notices)
       IN  /\ df' = r.df
           /\ IF r.err = "none" THEN pc' = "summary" /\ err' = err ELSE Fail(r.err)
    /\ UNCHANGED <<dirOk, listing, files, idx, all_frames, notices, summary,
                   ts_summary, reportDir, reports>>

\* summary = compute_summary(df)
ComputeSummary ==
    /\ pc = "summary"
    /\ IF SummaryRaises(df[1]) THEN Fail("ValueError") /\ summary' = summary
       ELSE summary' = <<compute_summary(df[1])>> /\ pc' = "bar_tpv" /\ err' = err
    /\ UNCHANGED <<dirOk, listing, files, idx, all_frames, notices, df,
                   ts_summary, reportDir, reports>>

\* fig_tpv.write_html(output_tpv)
WriteTpvChart ==
    /\ pc = "bar_tpv"
    /\ reports' = Append(reports, TpvChart)
    /\ pc' = "bar_markup"
    /\ UNCHANGED <<dirOk, listing, files, idx, all_frames, notices, err, df,
                   summary, ts_summary, reportDir>>

\* fig_markup.write_html(output_markup)
WriteMarkupChart ==
    /\ pc = "bar_markup"
    /\ reports' = Append(reports, MarkupChart)
    /\ pc' = "ts"
    /\ UNCHANGED <<dirOk, listing, files, idx, all_frames, notices, err, df,
                   summary, ts_summary, reportDir>>

\* lines 71-80: the monthly series, when there is a date to bucket
TimeSeries ==
    /\ pc = "ts"
    /\ IF HasDataColumn(df[1]) /\ DropNaData(df[1]) # <<>>
       THEN ts_summary' = <<time_series(df[1])>> /\ pc' = "ts_tpv"
       ELSE ts_summary' = ts_summary /\ pc' = "done"
    /\ UNCHANGED <<dirOk, listing, files, idx, all_frames, notices, err, df,
                   summary, reportDir, reports>>

\* fig_tpv_ts.write_html(output_ts)
WriteTpvTs ==
    /\ pc = "ts_tpv"
    /\ reports' = Append(reports, TpvTsChart)
    /\ pc' = "ts_markup"
    /\ UNCHANGED <<dirOk, listing, files, idx, all_frames, notices, err, df,
                   summary, ts_summary, reportDir>>

\* fig_markup_ts.write_html(output_markup_ts)
WriteMarkupTs ==
    /\ pc = "ts_markup"
    /\ reports' = Append(reports, MarkupTsChart)
    /\ pc' = "done"
    /\ UNCHANGED <<dirOk, listing, files, idx, all_frames, notices, err, df,
                   summary, ts_summary, reportDir>>

Next ==
    \/ MakeReportDir
    \/ ListDir
    \/ LoadFile
    \/ Combine
    \/ ComputeSummary
    \/ WriteTpvChart
    \/ WriteMarkupChart
    \/ TimeSeries
    \/ WriteTpvTs
    \/ WriteMarkupTs

Spec == Init /\ [][Next]_vars

----------------------------------------------------------------------------
(* The vocabulary of the statements, defined from the directory alone *)

Range(s) == {s[i] : i \in 1..Len(s)}

\* every order in which the entries of listing l can be enumerated
Perms(l) == {q \in [1..Len(l) -> Range(l)] : \A i, j \in 1..Len(l) : i # j => q[i] # q[j]}

\* the entries in lexicographic order of their names
InOrder ==
    CHOOSE s \in Perms(listing) :
        \A i, j \in 1..Len(s) : i < j => StrLess(s[i].name, s[j].name)

\* the name ends with extension x, in any casing
EndsWith(name, x) ==
    /\ Len(name) > Len(x)
    /\ StrLower(SubSeq(name, Len(name) - Len(x) + 1, Len(name))) = x

SupportedExtension(e) == \E x \in {ExtCsv, ExtXlsx, ExtXls} : EndsWith(e.name, x)

\* header h names column c under any casing and surrounding whitespace
SameLabel(h, c) == h.isStr /\ StrLower(Strip(h.s)) = StrLower(c)

HeaderPositions(e, c) ==
    {i \in 1..Len(e.frame.columns) : SameLabel(e.frame.columns[i], c)}

HasColumn(e, c) == HeaderPositions(e, c) # {}

\* a regular file that is no editor's lock file
Examined(e) == e.isfile /\ (e.name = <<>> \/ e.name[1] # 126)

Accepted(e) ==
    /\ Examined(e)
    /\ SupportedExtension(e)
    /\ e.parses
    /\ \A c \in RequiredCols : HasColumn(e, c)

Rejected(e) ==
    /\ Examined(e)
    /\ \/ ~SupportedExtension(e)
       \/ ~e.parses
       \/ \E c \in RequiredCols : ~HasColumn(e, c)

AcceptedInOrder == SelectSeq(InOrder, Accepted)

\* load_data is over: it returned a dataset or raised
LoadEnded == pc \notin {"mkdir", "listdir", "loop"}
Returned == df # <<>>

\* the k-th smallest element of S, 0 when S has fewer
Kth(S, k) ==
    IF Cardinality(S) < k THEN 0
    ELSE CHOOSE i \in S : Cardinality({x \in S : x <= i}) = k

\* column j of the dataset is the k-th column carrying its label
Occurrence(cols, j) == Cardinality({i \in 1..j : cols[i] = cols[j]})

\* what a cell of a source row is expected to be in the dataset
ExpectedValue(label, c) ==
    IF label \in {ColTpv, ColMarkup}
    THEN IF c.k \in {"num", "numstr"} THEN Num(c.v) ELSE NA
    ELSE IF label = ColData
    THEN IF c.k = "date" THEN Stamp(c.v) ELSE NA
    ELSE c

ExpectedCell(e, r, cols, j) ==
    LET src == Kth(HeaderPositions(e, cols[j].s), Occurrence(cols, j))
    IN  IF src = 0 THEN NA ELSE ExpectedValue(cols[j].s, e.frame.rows[r][src])

ExpectedRowsOf(e, cols) ==
    [r \in 1..Len(e.frame.rows) |-> [j \in 1..Len(cols) |-> ExpectedCell(e, r, cols, j)]]

RECURSIVE ExpectedRows(_, _)
ExpectedRows(es, cols) ==
    IF es = <<>> THEN <<>>
    ELSE ExpectedRowsOf(Head(es), cols) \o ExpectedRows(Tail(es), cols)

----------------------------------------------------------------------------
(* Statements *)

\* C3: the dataset load_data returns is the concatenation, in lexicographic
\* order of the file names, of the rows of every accepted file, each file's
\* rows in their order: no row is dropped or moved, and a Tpv or Markup cell
\* that is no number is missing in a row that is kept.
C3_DatasetIsConcatenation ==
    Returned => df[1].rows = ExpectedRows(AcceptedInOrder, df[1].columns)

\* a dataset of two accepted files that os.listdir yielded in the other order,
\* holding a row whose Tpv failed coercion
C3_Witness ==
    /\ Returned
    /\ Len(AcceptedInOrder) = 2
    /\ listing # InOrder
    /\ \E e \in Range(listing), r \in 1..Len(df[1].rows) :
          /\ Accepted(e)
          /\ \E i \in 1..Len(e.frame.rows), p \in HeaderPositions(e, ColTpv) :
                e.frame.rows[i][p].k = "text"
          /\ df[1].rows[r][Pos(df[1], ColTpv)] = NA
          /\ df[1].rows[r][Pos(df[1], ColCliente)] # NA

\* C8: what load_data returns, prints and raises is the same for every order
\* in which the file system enumerates the same directory entries.
C8_OrderIndependent ==
    LoadEnded =>
        \A q \in Perms(listing) :
            load_data(dirOk, q) =
                [df |-> df, notices |-> notices,
                 err |-> IF Returned THEN "none" ELSE err]

\* a listing that is not in sorted order, of two files that each leave a trace
C8_Witness ==
    /\ LoadEnded
    /\ listing # InOrder
    /\ Returned
    /\ Len(notices) = 1
    /\ Len(df[1].rows) > 0

\* the lines load_data printed about entry e
NoticesAbout(e) == {i \in 1..Len(notices) : notices[i].file = e.name}

RECURSIVE TotalRows(_)
TotalRows(es) ==
    IF es = <<>> THEN 0 ELSE Len(Head(es).frame.rows) + TotalRows(Tail(es))

\* C1: no per-file problem escapes load_data: it raises only when no file was
\* accepted ("no valid data") or when the directory cannot be listed, and
\* returns normally whenever some file is accepted.
C1_OnlyTwoFailures ==
    LoadEnded =>
        \/ Returned
        \/ ~dirOk /\ err = "ListDirError"
        \/ dirOk /\ err = "NoValidData" /\ AcceptedInOrder = <<>>

\* C6: with the directory listed, load_data fails with the "no valid data"
\* error if and only if no file was accepted, and returns a dataset when at
\* least one file is accepted, even one without rows.
C6_NoValidDataIffNoneAccepted ==
    (LoadEnded /\ dirOk) =>
        /\ (~Returned /\ err = "NoValidData") <=> (AcceptedInOrder = <<>>)
        /\ (AcceptedInOrder # <<>>) => Returned

\* C7: once load_data is over, every rejected file (unsupported extension,
\* parse failure, a required column missing) has produced exactly one notice,
\* every other entry (lock file, non-file, accepted file) none, and only the
\* accepted files' rows are in the dataset.
C7_OneNoticePerRejectedFile ==
    (LoadEnded /\ dirOk) =>
        /\ \A e \in Range(listing) :
              Cardinality(NoticesAbout(e)) = IF Rejected(e) THEN 1 ELSE 0
        /\ Returned => Len(df[1].rows) = TotalRows(AcceptedInOrder)

\* the Cliente cells of the accepted files' rows, as the files hold them
RECURSIVE SourceCliente(_)
SourceCliente(es) ==
    IF es = <<>> THEN <<>>
    ELSE LET e == Head(es)
             p == Kth(HeaderPositions(e, ColCliente), 1)
         IN  [r \in 1..Len(e.frame.rows) |-> e.frame.rows[r][p]]
                 \o SourceCliente(Tail(es))

ColumnPresent(d, c) == Positions(d.columns, Str(c)) # {}

\* C2 as stated: every row of the returned dataset has a non-missing Cliente,
\* and the columns Tpv and Markup are present.
C2_ClienteNeverMissing ==
    Returned =>
        /\ ColumnPresent(df[1], ColTpv) /\ ColumnPresent(df[1], ColMarkup)
        /\ \A r \in 1..Len(df[1].rows), p \in Positions(df[1].columns, Str(ColCliente)) :
              df[1].rows[r][p] # NA

\* C2 as amended: the columns Cliente, Tpv and Markup are present in the
\* returned dataset, and every row of an accepted file is in it with the
\* Cliente cell its file holds: missing exactly where the file's cell is empty.
C2_ClienteAsInSource ==
    Returned =>
        /\ ColumnPresent(df[1], ColTpv) /\ ColumnPresent(df[1], ColMarkup)
        /\ ColumnPresent(df[1], ColCliente)
        /\ Len(df[1].rows) = Len(SourceCliente(AcceptedInOrder))
        /\ \A r \in 1..Len(df[1].rows) :
              df[1].rows[r][Pos(df[1], ColCliente)] = SourceCliente(AcceptedInOrder)[r]

\* a returned dataset holding a row whose Cliente is missing
C2_Witness ==
    /\ Returned
    /\ \E r \in 1..Len(df[1].rows) : df[1].rows[r][Pos(df[1], ColCliente)] = NA
    /\ \E r \in 1..Len(df[1].rows) : df[1].rows[r][Pos(df[1], ColCliente)] # NA

----------------------------------------------------------------------------
(* compute_summary *)

Summarized == summary # <<>>

\* the rows of the dataset whose Cliente is the cell c
RowsOf(c) ==
    {r \in 1..Len(df[1].rows) : df[1].rows[r][Pos(df[1], ColCliente)] = c}

ClienteValues ==
    {df[1].rows[r][Pos(df[1], ColCliente)] : r \in 1..Len(df[1].rows)} \ {NA}

\* the sum of f[x] over the x in S
RECURSIVE SumOver(_, _)
SumOver(S, f) ==
    IF S = {} THEN 0
    ELSE LET x == CHOOSE y \in S : TRUE IN f[x] + SumOver(S \ {x}, f)

Registros == [g \in 1..Len(summary[1]) |-> summary[1][g].Registros]

OneRowPerCliente ==
    /\ {summary[1][g].Cliente : g \in 1..Len(summary[1])} = ClienteValues
    /\ Len(summary[1]) = Cardinality(ClienteValues)
    /\ \A g \in 1..Len(summary[1]) :
          summary[1][g].Registros = Cardinality(RowsOf(summary[1][g].Cliente))

\* C4 as stated: one row per distinct Cliente, Registros the number of rows of
\* that Cliente whatever their Tpv and Markup, and the Registros sum to the
\* number of rows of the input.
C4_RegistrosSumToRows ==
    Summarized =>
        /\ OneRowPerCliente
        /\ SumOver(1..Len(summary[1]), Registros) = Len(df[1].rows)

\* C4 as amended: one row per distinct Cliente, Registros the number of rows of
\* that Cliente whatever their Tpv and Markup, and the Registros sum to the
\* number of input rows whose Cliente is not missing (a row without Cliente is
\* in no group).
C4_RegistrosSumToKeyedRows ==
    Summarized =>
        /\ OneRowPerCliente
        /\ SumOver(1..Len(summary[1]), Registros) =
               Len(df[1].rows) - Cardinality(RowsOf(NA))

\* a summary of a dataset with a row without Cliente and a group one of whose
\* rows has no Tpv
C4_Witness ==
    /\ Summarized
    /\ RowsOf(NA) # {}
    /\ \E g \in 1..Len(summary[1]) :
          /\ summary[1][g].Registros = 2
          /\ \E r \in RowsOf(summary[1][g].Cliente) :
                df[1].rows[r][Pos(df[1], ColTpv)] = NA

\* the Tpv of each row of the dataset, a missing one counting 0
TpvOfRow ==
    [r \in 1..Len(df[1].rows) |->
        LET c == df[1].rows[r][Pos(df[1], ColTpv)] IN IF c = NA THEN 0 ELSE c.v]

\* C5: Tpv_Total of a group is the sum of the group's Tpv values that are not
\* missing, and is 0, not missing, for a group whose Tpv are all missing.
C5_TpvTotalSkipsMissing ==
    Summarized =>
        \A g \in 1..Len(summary[1]) :
            /\ summary[1][g].Tpv_Total \in Int
            /\ summary[1][g].Tpv_Total = SumOver(RowsOf(summary[1][g].Cliente), TpvOfRow)

\* a summary with a group whose Tpv are all missing and a group whose total is
\* the sum of several values
C5_Witness ==
    /\ Summarized
    /\ \E g \in 1..Len(summary[1]) :
          /\ \A r \in RowsOf(summary[1][g].Cliente) :
                df[1].rows[r][Pos(df[1], ColTpv)] = NA
          /\ summary[1][g].Tpv_Total = 0
    /\ \E g \in 1..Len(summary[1]) : summary[1][g].Tpv_Total = 300

----------------------------------------------------------------------------
(* main: the monthly series and the reports *)

\* the rows of the dataset that have a date, and the month (yyyymm) of each
DatedRows ==
    IF ~ColumnPresent(df[1], ColData) THEN {}
    ELSE {r \in 1..Len(df[1].rows) : df[1].rows[r][Pos(df[1], ColData)] # NA}

MonthOf(r) == df[1].rows[r][Pos(df[1], ColData)].v \div 100

RowsInMonth(m) == {r \in DatedRows : MonthOf(r) = m}

BucketMonth(b) == ts_summary[1][b].AnoMes.v \div 100

\* C9: the monthly series has one bucket per calendar month in which a row has
\* a date, rows without date are in no bucket, a bucket's Tpv_Total is the sum
\* of the Tpv that are not missing of the rows dated in its month, and the
\* buckets are in ascending month order.
C9_MonthlyBuckets ==
    ts_summary # <<>> =>
        /\ {BucketMonth(b) : b \in 1..Len(ts_summary[1])} = {MonthOf(r) : r \in DatedRows}
        /\ \A a, b \in 1..Len(ts_summary[1]) : a < b => BucketMonth(a) < BucketMonth(b)
        /\ \A b \in 1..Len(ts_summary[1]) :
              /\ ts_summary[1][b].AnoMes.v = BucketMonth(b) * 100 + 1
              /\ ts_summary[1][b].Tpv_Total = SumOver(RowsInMonth(BucketMonth(b)), TpvOfRow)

\* a series of several months, one of them holding two rows, over a dataset
\* that also has rows without date
C9_Witness ==
    /\ ts_summary # <<>>
    /\ Len(ts_summary[1]) >= 2
    /\ \E b \in 1..Len(ts_summary[1]) : Cardinality(RowsInMonth(BucketMonth(b))) = 2
    /\ Cardinality(DatedRows) < Len(df[1].rows)

Written == Range(reports)

\* C10: no report is written before load_data and compute_summary are over;
\* a run whose load failed has written none; a run whose load succeeded ends
\* with both bar charts written, and with the two time-series charts written
\* if and only if the dataset has a Data column with a value.
C10_ReportsFollowLoad ==
    /\ reports # <<>> => (Returned /\ Summarized)
    /\ pc \in {"done", "failed"} =>
          IF ~Returned THEN reports = <<>>
          ELSE /\ {TpvChart, MarkupChart} \subseteq Written
               /\ (TpvTsChart \in Written) <=> (DatedRows # {})
               /\ (MarkupTsChart \in Written) <=> (DatedRows # {})

====
